---- MODULE Spec2Model ----
(***************************************************************************)
(* The GitHub component of a project (src/github/github.ts): conditional  *)
(* construction of its children, discovery through the project's          *)
(* component collection, and the sorted view of the workflows.            *)
(*                                                                         *)
(* JavaScript values of the options are modelled by tags (strings):       *)
(* "undefined", "null", "true", "false", "{}" (an empty object) and       *)
(* "{...}" (a non-empty object).  Object references are component ids,    *)
(* NoRef standing for an undefined reference.  A string (a workflow name) *)
(* is the sequence of its UTF-16 code units.                              *)
(***************************************************************************)
EXTENDS Integers, Sequences, FiniteSets, TLC

VARIABLES components, nextId, constructed, last

vars == <<components, nextId, constructed, last>>

\* Bound: the number of components ever allocated.
MaxIds == 5

Projects == {"p1", "p2"}

NoRef == 0

\* "B", "á" (precomposed, U+00E1) and "á" (a + U+0301 combining acute).
Names == {<<66>>, <<225>>, <<97, 769>>}

NoName == <<>>

Booleans == {"undefined", "true", "false"}

\* The options the constructor reads: every combination of the switches, and
\* the two settings that only set fields of the GitHub object.
GitHubOptions ==
    [mergify : Booleans,
     mergifyOptions : {"undefined", "{}"},
     workflows : {"undefined"},
     pullRequestLint : Booleans,
     projenTokenSecret : {"undefined"},
     autoApproveOptions : {"undefined", "null", "{}", "{...}"},
     stale : Booleans]
    \cup
    [mergify : {"undefined"},
     mergifyOptions : {"undefined"},
     workflows : {"true", "false"},
     pullRequestLint : {"undefined"},
     projenTokenSecret : {"undefined", "MY_TOKEN"},
     autoApproveOptions : {"undefined"},
     stale : {"undefined"}]

NoOptions ==
    [mergify |-> "undefined", mergifyOptions |-> "undefined",
     workflows |-> "undefined", pullRequestLint |-> "undefined",
     projenTokenSecret |-> "undefined", autoApproveOptions |-> "undefined",
     stale |-> "undefined"]

\* The options of the constructions after the first: the defaults, and every
\* switch off
LaterOptions ==
    {NoOptions,
     [NoOptions EXCEPT !.mergify = "false", !.pullRequestLint = "false",
                       !.stale = "false"]}

----------------------------------------------------------------------------
(* JavaScript operators used by the code *)

\* a ?? b
NullishCoalescing(a, b) == IF a \in {"undefined", "null"} THEN b ELSE a

\* the condition of an if statement: ToBoolean
ToBoolean(v) == v \notin {"undefined", "null", "false"}

\* Array.prototype.filter: a new array
RECURSIVE filter(_, _)
filter(arr, kind) ==
    IF arr = <<>> THEN <<>>
    ELSE IF Head(arr).kind = kind
         THEN <<Head(arr)>> \o filter(Tail(arr), kind)
         ELSE filter(Tail(arr), kind)

\* Unicode canonical composition, on the code units the model uses
RECURSIVE NFC(_)
NFC(s) ==
    IF Len(s) >= 2 /\ s[1] = 97 /\ s[2] = 769
    THEN <<225>> \o NFC(SubSeq(s, 3, Len(s)))
    ELSE IF s = <<>> THEN <<>> ELSE <<s[1]>> \o NFC(Tail(s))

\* Collation weights <<primary, secondary, tertiary>> of a code unit: the base
\* letter, then the accent, then the case (lower case first).
Weights(cu) ==
    CASE cu = 97 -> <<1, 0, 0>>
      [] cu = 225 -> <<1, 1, 0>>
      [] cu = 66 -> <<2, 0, 1>>
      [] OTHER -> <<3, 0, 0>>

RECURSIVE CompareSeq(_, _)
CompareSeq(x, y) ==
    IF x = <<>> /\ y = <<>> THEN 0
    ELSE IF x = <<>> THEN -1
    ELSE IF y = <<>> THEN 1
    ELSE IF Head(x) < Head(y) THEN -1
    ELSE IF Head(x) > Head(y) THEN 1
    ELSE CompareSeq(Tail(x), Tail(y))

Level(s, l) == [i \in 1..Len(s) |-> Weights(s[i])[l]]

\* String.prototype.localeCompare: canonically equivalent strings compare
\* equal; otherwise the primary weights decide, then the secondary, then
\* the tertiary.
localeCompare(a, b) ==
    LET x == NFC(a)
        y == NFC(b)
    IN IF CompareSeq(Level(x, 1), Level(y, 1)) # 0
       THEN CompareSeq(Level(x, 1), Level(y, 1))
       ELSE IF CompareSeq(Level(x, 2), Level(y, 2)) # 0
       THEN CompareSeq(Level(x, 2), Level(y, 2))
       ELSE CompareSeq(Level(x, 3), Level(y, 3))

\* The comparator of the workflows getter
compareFn(w1, w2) == localeCompare(w1.name, w2.name)

\* Array.prototype.sort with compareFn (stable)
RECURSIVE sort(_)
sort(arr) ==
    IF arr = <<>> THEN <<>>
    ELSE LET n == Len(arr)
             init == sort(SubSeq(arr, 1, n - 1))
             w == arr[n]
             k == Cardinality({i \in 1..(n - 1) : compareFn(init[i], w) <= 0})
         IN SubSeq(init, 1, k) \o <<w>> \o SubSeq(init, k + 1, n - 1)

----------------------------------------------------------------------------
(* Components *)

\* An object of class `kind`, owned by `project`
Object(id, kind, project, name) ==
    [id |-> id, kind |-> kind, project |-> project, name |-> name,
     mergify |-> NoRef, autoApprove |-> NoRef,
     workflowsEnabled |-> "undefined", projenTokenSecret |-> "undefined"]

\* Outcomes of a child's constructor: it returns, or it throws before or
\* after the base constructor has registered the child.
Outcomes == {"returns", "throwsBefore", "throwsAfter"}

\* new Kind(...): the Component base constructor appends the new object to
\* its project's components.  st is the state of the run so far.
Component(st, kind, project, name, outcome) ==
    IF outcome = "throwsBefore"
    THEN [st EXCEPT !.threw = TRUE, !.ret = NoRef]
    ELSE [components |->
              [st.components EXCEPT
                  ![project] = Append(@, Object(st.nextId, kind, project, name))],
          nextId |-> st.nextId + 1,
          threw |-> (outcome = "throwsAfter"),
          ret |-> IF outcome = "throwsAfter" THEN NoRef ELSE st.nextId]

\* Assign fields of the object with this id
Assign(comps, project, id, fields) ==
    [comps EXCEPT ![project] =
        [i \in 1..Len(@) |->
            IF @[i].id = id
            THEN [f \in DOMAIN @[i] |->
                     IF f \in DOMAIN fields THEN fields[f] ELSE @[i][f]]
            ELSE @[i]]]

----------------------------------------------------------------------------
(* GitHub *)

\* The outcome of the constructor of the child of this kind, when the
\* constructor of `fail` is the one that throws
OutcomeOf(fail, kind) == IF fail[1] = kind THEN fail[2] ELSE "returns"

Failures ==
    {<<"none", "returns">>} \cup
    ({"Mergify", "PullRequestLint", "AutoApprove", "Stale"}
        \X {"throwsBefore", "throwsAfter"})

\* One branch of the constructor: if (cond) { new Kind(this, ...) }
Branch(st, cond, kind, project, fail) ==
    IF st.threw \/ ~cond THEN [st EXCEPT !.ret = NoRef]
    ELSE Component(st, kind, project, NoName, OutcomeOf(fail, kind))

\* Faulty variant: supplying mergifyOptions enables Mergify too
mergifyEnabled_OrOptions(options) ==
    \/ ToBoolean(NullishCoalescing(options.mergify, "true"))
    \/ ToBoolean(options.mergifyOptions)

mergifyEnabled(options) == ToBoolean(NullishCoalescing(options.mergify, "true"))

pullRequestLintEnabled(options) ==
    ToBoolean(NullishCoalescing(options.pullRequestLint, "true"))

\* Faulty variant: an empty options object does not enable auto approve
autoApproveEnabled_NonEmpty(options) == options.autoApproveOptions = "{...}"

autoApproveEnabled(options) == ToBoolean(options.autoApproveOptions)

\* Faulty variant: no default for stale
staleEnabled_Truthy(options) == ToBoolean(options.stale)

staleEnabled(options) == ToBoolean(NullishCoalescing(options.stale, "true"))

\* new GitHub(project, options)
GitHubConstructor(st, project, options, fail) ==
    LET this == st.nextId
        s0 == Component(st, "GitHub", project, NoName, "returns")
        s1 == Branch(s0, mergifyEnabled(options), "Mergify", project, fail)
        s2 == Branch(s1, pullRequestLintEnabled(options), "PullRequestLint",
                     project, fail)
        s3 == Branch(s2, autoApproveEnabled(options), "AutoApprove", project, fail)
        s4 == Branch(s3, staleEnabled(options), "Stale", project, fail)
        fields ==
            [workflowsEnabled |-> NullishCoalescing(options.workflows, "true"),
             projenTokenSecret |->
                 NullishCoalescing(options.projenTokenSecret, "PROJEN_GITHUB_TOKEN"),
             mergify |-> s1.ret,
             autoApprove |-> s3.ret]
    IN [components |-> Assign(s4.components, project, this, fields),
        nextId |-> s4.nextId,
        threw |-> s4.threw,
        ret |-> IF s4.threw THEN NoRef ELSE this]

\* Array.prototype.find with the isGitHub predicate
RECURSIVE findGitHub(_)
findGitHub(arr) ==
    IF arr = <<>> THEN NoRef
    ELSE IF Head(arr).kind = "GitHub" THEN Head(arr).id
    ELSE findGitHub(Tail(arr))

\* GitHub.of(project): the project's collection afterwards, and the result
of(comps, project) ==
    [components |-> comps, ret |-> findGitHub(comps[project])]

\* Faulty variant: the getter does not sort
workflows_Unsorted(comps, this) ==
    [components |-> comps, ret |-> filter(comps[this.project], "GithubWorkflow")]

\* Faulty variant: the getter sorts the project's own array, then filters it
workflows_InPlace(comps, this) ==
    [components |-> [comps EXCEPT ![this.project] = sort(@)],
     ret |-> filter(sort(comps[this.project]), "GithubWorkflow")]

\* get workflows(): the project's collection afterwards, and the result
workflows(comps, this) ==
    [components |-> comps,
     ret |-> sort(filter(comps[this.project], "GithubWorkflow"))]

\* Faulty variant: names are matched by localeCompare
RECURSIVE findName_Collated(_, _)
findName_Collated(arr, name) ==
    IF arr = <<>> THEN NoRef
    ELSE IF localeCompare(Head(arr).name, name) = 0 THEN Head(arr).id
    ELSE findName_Collated(Tail(arr), name)

\* Array.prototype.find with the predicate w.name === name
RECURSIVE findName(_, _)
findName(arr, name) ==
    IF arr = <<>> THEN NoRef
    ELSE IF Head(arr).name = name THEN Head(arr).id
    ELSE findName(Tail(arr), name)

\* tryFindWorkflow(name)
tryFindWorkflow(comps, this, name) ==
    LET ws == workflows(comps, this)
    IN [components |-> ws.components, ret |-> findName(ws.ret, name)]

\* Faulty variant: a workflow of the name is reused
addWorkflow_Unique(st, this, name, outcome) ==
    LET arr == st.components[this.project]
        same == {i \in 1..Len(arr) :
                    arr[i].kind = "GithubWorkflow" /\ arr[i].name = name}
    IN IF same = {}
       THEN Component(st, "GithubWorkflow", this.project, name, outcome)
       ELSE [st EXCEPT !.ret = arr[CHOOSE i \in same : TRUE].id]

\* addWorkflow(name)
addWorkflow(st, this, name, outcome) ==
    Component(st, "GithubWorkflow", this.project, name, outcome)

\* addPullRequestTemplate(...content)
addPullRequestTemplate(st, this, outcome) ==
    Component(st, "PullRequestTemplate", this.project, NoName, outcome)

\* Faulty variant: the Dependabot of the project is reused
addDependabot_Once(st, this, outcome) ==
    LET arr == st.components[this.project]
        same == {i \in 1..Len(arr) : arr[i].kind = "Dependabot"}
    IN IF same = {}
       THEN Component(st, "Dependabot", this.project, NoName, outcome)
       ELSE [st EXCEPT !.ret = arr[CHOOSE i \in same : TRUE].id]

\* addDependabot(options)
addDependabot(st, this, outcome) ==
    Component(st, "Dependabot", this.project, NoName, outcome)

----------------------------------------------------------------------------
(* The state machine *)

\* The GitHub objects a caller can hold
GitHubs ==
    {c \in UNION {{components[p][i] : i \in 1..Len(components[p])} : p \in Projects} :
        c.kind = "GitHub"}

\* The record of a constructing call: new GitHub or one of the add methods
Call(op, project, this, options, name, r) ==
    [op |-> op, project |-> project, this |-> this, options |-> options,
     name |-> name, threw |-> r.threw, ret |-> r.ret, before |-> components]

Start == [components |-> components, nextId |-> nextId, threw |-> FALSE, ret |-> NoRef]

Init ==
    /\ components = [p \in Projects |-> <<>>]
    /\ nextId = 1
    /\ constructed = {}
    /\ last = [op |-> "none", project |-> "p1", this |-> NoRef, options |-> NoOptions,
               name |-> NoName, threw |-> FALSE, ret |-> NoRef,
               before |-> [p \in Projects |-> <<>>]]

Mutation(r, c) ==
    /\ r.nextId <= MaxIds + 1
    /\ components' = r.components
    /\ nextId' = r.nextId
    /\ last' = c

Query(r) ==
    /\ UNCHANGED <<nextId, constructed, last>>
    /\ components' = r.components

\* constructed: the GitHub objects whose constructor has returned
New(project, options, fail) ==
    LET r == GitHubConstructor(Start, project, options, fail)
    IN /\ Mutation(r, Call("new", project, NoRef, options, NoName, r))
       /\ constructed' = IF r.threw THEN constructed ELSE constructed \cup {r.ret}

Of(project) == Query(of(components, project))

Workflows(this) == Query(workflows(components, this))

TryFindWorkflow(this, name) == Query(tryFindWorkflow(components, this, name))

AddWorkflow(this, name, outcome) ==
    LET r == addWorkflow(Start, this, name, outcome)
    IN /\ Mutation(r, Call("addWorkflow", this.project, this.id, NoOptions, name, r))
       /\ UNCHANGED constructed

AddPullRequestTemplate(this, outcome) ==
    LET r == addPullRequestTemplate(Start, this, outcome)
    IN /\ Mutation(r, Call("addPullRequestTemplate", this.project, this.id,
                            NoOptions, NoName, r))
       /\ UNCHANGED constructed

AddDependabot(this, outcome) ==
    LET r == addDependabot(Start, this, outcome)
    IN /\ Mutation(r, Call("addDependabot", this.project, this.id, NoOptions,
                            NoName, r))
       /\ UNCHANGED constructed

Lookups ==
    \/ \E p \in Projects : Of(p)
    \/ \E g \in GitHubs : Workflows(g)
    \/ \E g \in GitHubs, n \in Names : TryFindWorkflow(g, n)

Adds ==
    \/ \E g \in GitHubs, n \in Names, out \in Outcomes : AddWorkflow(g, n, out)
    \/ \E g \in GitHubs, out \in Outcomes : AddPullRequestTemplate(g, out)
    \/ \E g \in GitHubs, out \in Outcomes : AddDependabot(g, out)

\* The registry of one project: constructions whose children do not throw,
\* the add methods, the lookups
Next ==
    \/ \E o \in LaterOptions : New("p1", o, <<"none", "returns">>)
    \/ Lookups
    \/ Adds

Spec == Init /\ [][Next]_vars

\* The constructor: the first construction with every combination of the
\* options, later ones with LaterOptions
NextNew ==
    \/ \E p \in Projects, o \in GitHubOptions, f \in Failures :
          nextId = 1 /\ New(p, o, f)
    \/ \E p \in Projects, o \in LaterOptions, f \in Failures :
          nextId > 1 /\ New(p, o, f)
    \/ \E p \in Projects : Of(p)

SpecNew == Init /\ [][NextNew]_vars

----------------------------------------------------------------------------
(* Properties *)

Indices(arr) == 1..Len(arr)

Count(arr, kind) == Cardinality({i \in Indices(arr) : arr[i].kind = kind})

Min(S) == CHOOSE x \in S : \A y \in S : x <= y

\* What the last call appended to the collection of project p
Added(p) == SubSeq(components[p], Len(last.before[p]) + 1, Len(components[p]))

\* The last call left the older entries of every collection as they were
OlderKept ==
    \A p \in Projects :
        /\ Len(last.before[p]) <= Len(components[p])
        /\ SubSeq(components[p], 1, Len(last.before[p])) = last.before[p]

Returned == last.op = "new" /\ ~last.threw

AbsentOrTrue(v) == v \in {"undefined", "true"}

Supplied(v) == v # "undefined"

IsObject(v) == v \in {"{}", "{...}"}

SwitchKinds == {"Mergify", "PullRequestLint", "AutoApprove", "Stale"}

\* The switches of the last construction that are on, auto approve being on
\* when autoApproveOn
SwitchesOn(autoApproveOn) ==
    {k \in SwitchKinds :
        \/ k = "Mergify" /\ AbsentOrTrue(last.options.mergify)
        \/ k = "PullRequestLint" /\ AbsentOrTrue(last.options.pullRequestLint)
        \/ k = "Stale" /\ AbsentOrTrue(last.options.stale)
        \/ k = "AutoApprove" /\ autoApproveOn}

\* A construction that returned registered, into its own project only, the
\* GitHub object and one child per switch that is on, and nothing else
OneChildPerSwitch(autoApproveOn) ==
    Returned =>
        LET new == Added(last.project)
        IN /\ OlderKept
           /\ \A p \in Projects \ {last.project} : Added(p) = <<>>
           /\ \A i \in Indices(new) : new[i].project = last.project
           /\ Count(new, "GitHub") = 1
           /\ new[1].id = last.ret
           /\ \A k \in SwitchKinds :
                 Count(new, k) = IF k \in SwitchesOn(autoApproveOn) THEN 1 ELSE 0
           /\ Len(new) = 1 + Cardinality(SwitchesOn(autoApproveOn))

C2_OfIsFirstConstructed ==
    \A p \in Projects :
        LET arr == components[p]
            made == {i \in Indices(arr) : arr[i].id \in constructed}
            typed == {i \in Indices(arr) : arr[i].kind = "GitHub"}
            r == of(components, p).ret
        IN IF made = {} THEN r = NoRef ELSE r = arr[Min(typed)].id

\* C5 as stated: a construction in which a child's constructor throws leaves
\* the components of the project, and the result of GitHub.of(project), as
\* they were before.
C5_FailedConstructionLeavesNoTrace ==
    (last.op = "new" /\ last.threw) =>
        /\ components = last.before
        /\ of(components, last.project).ret = of(last.before, last.project).ret

\* The autoApprove field of the GitHub just constructed is set exactly when
\* `on`, and then to the one auto approve child the construction registered
AutoApproveGatedBy(on) ==
    Returned =>
        LET new == Added(last.project)
            this == new[1]
            aa == {i \in Indices(new) : new[i].kind = "AutoApprove"}
        IN IF on
           THEN /\ this.autoApprove # NoRef
                /\ Cardinality(aa) = 1
                /\ \A i \in aa : new[i].id = this.autoApprove
           ELSE this.autoApprove = NoRef /\ aa = {}

C7_MergifyFieldIffEnabled ==
    Returned =>
        LET new == Added(last.project)
            this == new[1]
            m == {i \in Indices(new) : new[i].kind = "Mergify"}
        IN IF AbsentOrTrue(last.options.mergify)
           THEN /\ this.mergify # NoRef
                /\ Cardinality(m) = 1
                /\ \A i \in m : new[i].id = this.mergify
           ELSE this.mergify = NoRef /\ m = {}

C7_Witness ==
    /\ Returned
    /\ last.options.mergify = "false"
    /\ last.options.mergifyOptions = "{}"
    /\ Added(last.project)[1].mergify = NoRef

\* The workflows among the components of project p
WorkflowsOf(p) ==
    {components[p][i] : i \in {j \in Indices(components[p]) :
                                  components[p][j].kind = "GithubWorkflow"}}

Elements(arr) == {arr[i] : i \in Indices(arr)}

Ids(arr) == [i \in Indices(arr) |-> arr[i].id]

\* C3: whatever was added, and in whatever order, `workflows` is exactly the
\* workflows now among the project's components, each once, in ascending
\* order of their names; a workflow just added is among them.
C3_WorkflowsSortedView ==
    \A g \in GitHubs :
        LET ws == workflows(components, g).ret
        IN /\ Elements(ws) = WorkflowsOf(g.project)
           /\ Len(ws) = Cardinality(WorkflowsOf(g.project))
           /\ \A i, j \in Indices(ws) :
                 i < j => localeCompare(ws[i].name, ws[j].name) <= 0
           /\ (last.op = "addWorkflow" /\ ~last.threw /\ last.project = g.project)
                 => \E i \in Indices(ws) : ws[i].id = last.ret

C3_Witness ==
    \E g \in GitHubs :
        LET ws == workflows(components, g).ret
        IN /\ Len(ws) = 3
           /\ Ids(ws) # Ids(filter(components[g.project], "GithubWorkflow"))
           /\ Count(components[g.project], "Dependabot") = 1
           /\ last.op = "addWorkflow" /\ ~last.threw

\* C4: tryFindWorkflow(name) is undefined exactly when no workflow of the
\* project has exactly that name, and is the workflow when exactly one has.
C4_TryFindExactName ==
    \A g \in GitHubs, n \in Names :
        LET r == tryFindWorkflow(components, g, n).ret
            named == {w \in WorkflowsOf(g.project) : w.name = n}
        IN /\ (r = NoRef) <=> (named = {})
           /\ Cardinality(named) = 1 => \A w \in named : r = w.id

C4_Witness ==
    \E g \in GitHubs :
        /\ {w.name : w \in WorkflowsOf(g.project)} = {<<225>>, <<66>>}
        /\ tryFindWorkflow(components, g, <<225>>).ret # NoRef
        /\ tryFindWorkflow(components, g, <<97, 769>>).ret = NoRef

AddKind ==
    [addWorkflow |-> "GithubWorkflow",
     addPullRequestTemplate |-> "PullRequestTemplate",
     addDependabot |-> "Dependabot"]

\* C8: an add method that returns has appended exactly one new child of its
\* kind to the project of its GitHub, and returns that child; nothing is
\* deduplicated, and the components stay in the order of the calls.
C8_AddAppendsOneChild ==
    /\ (last.op \in DOMAIN AddKind /\ ~last.threw) =>
          /\ OlderKept
          /\ \A p \in Projects \ {last.project} : Added(p) = <<>>
          /\ Len(Added(last.project)) = 1
          /\ Added(last.project)[1].kind = AddKind[last.op]
          /\ Added(last.project)[1].id = last.ret
          /\ Added(last.project)[1].project = last.project
          /\ \A i \in Indices(last.before[last.project]) :
                last.before[last.project][i].id # last.ret
    /\ \A p \in Projects : \A i, j \in Indices(components[p]) :
          i < j => components[p][i].id < components[p][j].id

C8_Witness ==
    /\ last.op = "addDependabot" /\ ~last.threw
    /\ Count(last.before[last.project], "Dependabot") = 1
    /\ Count(components[last.project], "Dependabot") = 2

\* C9: a lookup (GitHub.of, workflows, tryFindWorkflow) changes nothing: not
\* the components of any project, their order included, and no field; so a
\* lookup repeated with no mutation in between reads the same state.
C9_LookupsPure == [][Lookups => UNCHANGED vars]_vars

\* A state in which the sort of `workflows` has something to reorder
C9_Witness ==
    \E g \in GitHubs :
        LET r == workflows(components, g)
        IN /\ Len(r.ret) >= 2
           /\ Ids(r.ret) # Ids(filter(components[g.project], "GithubWorkflow"))
           /\ r.components = components

\* The first workflow of ws named exactly n
FirstNamed(ws, n) == ws[Min({i \in Indices(ws) : ws[i].name = n})].id

\* addWorkflow checks no name: a call that returns leaves one more workflow
\* of that name; tryFindWorkflow returns the first of `workflows` with the
\* name; between two workflows of one name `workflows` has only workflows
\* whose names are Between them
DuplicateNames(Between(_, _)) ==
    /\ (last.op = "addWorkflow" /\ ~last.threw) =>
          Cardinality({i \in Indices(components[last.project]) :
                          /\ components[last.project][i].kind = "GithubWorkflow"
                          /\ components[last.project][i].name = last.name})
            = 1 + Cardinality({i \in Indices(last.before[last.project]) :
                          /\ last.before[last.project][i].kind = "GithubWorkflow"
                          /\ last.before[last.project][i].name = last.name})
    /\ \A g \in GitHubs :
          LET ws == workflows(components, g).ret
          IN \A i, j \in Indices(ws) :
                (i < j /\ ws[i].name = ws[j].name) =>
                    /\ ws[i] \in WorkflowsOf(g.project)
                    /\ ws[j] \in WorkflowsOf(g.project)
                    /\ \A k \in i..j : Between(ws[k].name, ws[i].name)
                    /\ tryFindWorkflow(components, g, ws[i].name).ret
                          = FirstNamed(ws, ws[i].name)

SameName(a, b) == a = b

CollatesEqual(a, b) == localeCompare(a, b) = 0

\* C10 as stated: two workflows added with the same name are both in the
\* project, `workflows` returns them next to each other, and
\* tryFindWorkflow(name) returns the one that comes first in `workflows`.
C10_DuplicatesAdjacent == DuplicateNames(SameName)

\* C10 as amended: two workflows added with the same name are both in the
\* project, `workflows` has between them only workflows whose names compare
\* equal to theirs under localeCompare, and tryFindWorkflow(name) returns the
\* first of `workflows` with exactly that name.
C10_DuplicatesTogether == DuplicateNames(CollatesEqual)

C10_Witness ==
    /\ last.op = "addWorkflow" /\ ~last.threw
    /\ \E g \in GitHubs :
          LET ws == workflows(components, g).ret
          IN /\ Len(ws) = 3
             /\ ws[1].name = ws[3].name
             /\ ws[2].name # ws[1].name
             /\ tryFindWorkflow(components, g, ws[3].name).ret = ws[1].id

====
